---- MODULE Spec2Model ----
(***************************************************************************)
(* Client-side synchronization core of the document-ai-platform frontend:  *)
(*   - FileUpload   (src/src/components/FileUpload.tsx):  the Upload       *)
(*     Submitter, validateFile / uploadFile and its 2 s reset timer;       *)
(*   - DocumentList (src/src/components/DocumentList.tsx): the Document    *)
(*     Synchronizer, fetchDocuments and its three useEffect triggers;      *)
(*   - App          (src/src/App.tsx): the wiring of the two.              *)
(*                                                                         *)
(* The specifications share the state and the actions:                     *)
(*   Spec        the program as App.tsx composes it;                       *)
(*   SpecUpload  FileUpload alone, under every value of its props;         *)
(*   SpecList    DocumentList alone, under every value of its props;       *)
(*   SpecSync    DocumentList as App renders it, with row focus and        *)
(*               teardown;                                                 *)
(*   SpecPoll    DocumentList polling a backend that changes, with the     *)
(*               fairness of the timer and of the network.                 *)
(***************************************************************************)
EXTENDS Integers, Sequences, FiniteSets, TLC

VARIABLES
    uploadProps,     \* FileUpload props: which callbacks the parent passed
    calls,           \* one record per uploadFile invocation, in call order
    isUploading,     \* FileUpload state (busy flag)
    uploadProgress,  \* FileUpload state (progress label)
    appDocuments,    \* App state `documents`
    appError,        \* App state `error`
    lifecycle,       \* DocumentList: "rendered" | "mounted" | "unmounted"
    refreshTrigger,  \* DocumentList prop, as last rendered by the parent
    documents,       \* DocumentList state (held collection)
    loading,         \* DocumentList state
    error,           \* DocumentList state
    pending,         \* the GET /documents requests outstanding, oldest first:
                     \* for each, whether a request issued later has completed
    intervalActive,  \* the setInterval timer exists and is not cleared
    started,         \* history: fetchDocuments calls so far, by cause
    mountFetches,    \* history: fetchDocuments calls made by the mount commit
    lastFetch,       \* history: the last completed fetch and the state it met
    lastRender,      \* history: the last prop delivery after mount
    selectedDocument,\* DocumentList state (the record shown in the detail modal)
    backend          \* the collection the server holds (environment)

uploadVars == <<uploadProps, calls, isUploading, uploadProgress, appDocuments, appError>>
listVars == <<lifecycle, refreshTrigger, documents, loading, error, pending,
              intervalActive, started, mountFetches, lastFetch, lastRender,
              selectedDocument, backend>>
vars == <<uploadProps, calls, isUploading, uploadProgress, appDocuments, appError,
          lifecycle, refreshTrigger, documents, loading, error, pending,
          intervalActive, started, mountFetches, lastFetch, lastRender,
          selectedDocument, backend>>

(***************************************************************************)
(* Bounds of the model.                                                    *)
(***************************************************************************)
MaxSubmits == 2      \* uploadFile invocations per behaviour
MaxFetches == 3      \* fetchDocuments invocations per behaviour
MaxTrigger == 2      \* largest refreshTrigger value a parent passes
MaxRows == 2         \* rows of the table a user can click
MaxInFlight == 2     \* requests outstanding at once under SpecPoll

(***************************************************************************)
(* FileUpload: constants and validation.                                   *)
(***************************************************************************)
SUPPORTED_TYPES == {"image/jpeg", "image/png", "image/jpg", "application/pdf"}

MAX_FILE_SIZE == 20 * 1024 * 1024

MiB == 1024 * 1024

Null == "<null>"

UnsupportedTypeMsg == "Unsupported file type. Please upload JPG, PNG, or PDF."

FileTooLargeMsg == "File is too large. Maximum size is 20MB."

\* The files a user can drop or select: every supported MIME type, an
\* unsupported one and the empty type the browser gives an unknown file; sizes
\* below, at and above the limit.
FileTypes == SUPPORTED_TYPES \cup {"image/gif", ""}

FileSizes == {MiB, MAX_FILE_SIZE, MAX_FILE_SIZE + 1}

Files == [type : FileTypes, size : FileSizes, name : {"scan"}]

\* The files of the end-to-end scenarios: a 1 MiB PNG and a 25 MiB PDF.
ScenarioFiles == {[type |-> "image/png", size |-> MiB, name |-> "scan"],
                  [type |-> "application/pdf", size |-> 25 * MiB, name |-> "scan"]}

\* validateFile with the two checks in the opposite order.
validateFileSizeFirst(file) ==
    IF file.size > MAX_FILE_SIZE THEN FileTooLargeMsg
    ELSE IF file.type \notin SUPPORTED_TYPES THEN UnsupportedTypeMsg
    ELSE Null

\* validateFile rejecting the boundary size as well.
validateFileGeq(file) ==
    IF file.type \notin SUPPORTED_TYPES THEN UnsupportedTypeMsg
    ELSE IF file.size >= MAX_FILE_SIZE THEN FileTooLargeMsg
    ELSE Null

validateFile(file) ==
    IF file.type \notin SUPPORTED_TYPES THEN UnsupportedTypeMsg
    ELSE IF file.size > MAX_FILE_SIZE THEN FileTooLargeMsg
    ELSE Null

(***************************************************************************)
(* Outcomes of POST /documents, as uploadFile sees them.                   *)
(***************************************************************************)
\* response.statusText of a non-2xx answer ("" under HTTP/2).
StatusTexts == {"Internal Server Error", ""}

\* `Upload failed: ${response.statusText}`
UploadFailedMsg(statusText) ==
    IF statusText = "" THEN "Upload failed: "
    ELSE "Upload failed: Internal Server Error"

\* The answers of the end-to-end scenarios: the created document, and a 500.
ScenarioPostOutcomes ==
    {[kind |-> "ok", text |-> ""],
     [kind |-> "status", text |-> "Internal Server Error"]}

PostOutcomes ==
    {[kind |-> "network", text |-> "Failed to fetch"],
     [kind |-> "badjson", text |-> "Unexpected end of JSON input"],
     [kind |-> "ok", text |-> ""]}
    \cup {[kind |-> "status", text |-> st] : st \in StatusTexts}

\* What a throwing onUploadSuccess throws: an Error (with its message) or a
\* value that is no Error.
Thrown == {[isError |-> TRUE, message |-> "handler failed"],
           [isError |-> FALSE, message |-> ""]}

\* error instanceof Error ? error.message : "Upload failed"
errorMessage(thrown) == IF thrown.isError THEN thrown.message ELSE "Upload failed"

EmptyLabel == [kind |-> "empty", name |-> ""]

UploadingLabel(file) == [kind |-> "uploading", name |-> file.name]

SuccessLabel == [kind |-> "successful", name |-> ""]

Report(kind, msg, doc) == [kind |-> kind, msg |-> msg, doc |-> doc]

(***************************************************************************)
(* DocumentList: props, documents and outcomes of GET /documents.          *)
(***************************************************************************)
\* refreshTrigger?: number -- the value of an omitted prop.
Undefined == -1

TriggerValues == {Undefined} \cup (0 .. MaxTrigger)

\* JavaScript truthiness of a number | undefined (NaN is not modelled).
Truthy(v) == v # Undefined /\ v # 0

\* <DocumentList /> : App passes no refreshTrigger.
AppRefreshTrigger == Undefined

Doc(id, status) == [id |-> id, status |-> status]

\* Bodies of a 2xx GET /documents, most recent first.
Bodies == {<<>>,
           <<Doc(1, "PENDING")>>,
           <<Doc(1, "COMPLETED")>>,
           <<Doc(2, "PENDING"), Doc(1, "COMPLETED")>>}

GetOutcomes ==
    {[kind |-> "ok", body |-> b, text |-> ""] : b \in Bodies}
    \cup {[kind |-> "status", body |-> <<>>, text |-> ""],
          [kind |-> "network", body |-> <<>>, text |-> "Failed to fetch"],
          [kind |-> "badjson", body |-> <<>>, text |-> "Unexpected end of JSON input"]}

\* The answers of the end-to-end scenarios: the uploaded document pending, then
\* completed, and a 500.
ScenarioGetOutcomes ==
    {[kind |-> "ok", body |-> <<Doc(1, "PENDING")>>, text |-> ""],
     [kind |-> "ok", body |-> <<Doc(1, "COMPLETED")>>, text |-> ""],
     [kind |-> "status", body |-> <<>>, text |-> ""]}

\* useState<Document | null>(null): no document selected.
NoDocument == Doc(0, "")

Ids(docs) == {docs[k].id : k \in 1 .. Len(docs)}

NoFetch == [kind |-> "none", body |-> <<>>, prevDocuments |-> <<>>,
            prevError |-> "", applied |-> FALSE, overtaken |-> FALSE]

\* Number of GET /documents requests outstanding.
inFlight == Len(pending)

\* n requests just issued.
Issued(n) == [k \in 1 .. n |-> FALSE]

\* The outstanding requests once the k-th has completed: it leaves, and every
\* older one has now been overtaken.
AfterCompletion(reqs, k) ==
    [j \in 1 .. Len(reqs) - 1 |-> IF j < k THEN TRUE ELSE reqs[j + 1]]

NoRender == [from |-> Undefined, to |-> Undefined, fetches |-> 0, seen |-> FALSE]

TotalStarted == started.mount + started.trigger + started.timer + started.manual

(***************************************************************************)
(* fetchDocuments: the synchronous part (setLoading(true), the request)    *)
(* and the completion (try / catch / finally after the awaits).            *)
(***************************************************************************)
\* State after n calls of fetchDocuments made in one commit for `cause`
\* (n = 0: nothing happens).
CallFetchDocuments(cause, n) ==
    /\ loading' = (IF n > 0 THEN TRUE ELSE loading)
    /\ pending' = pending \o Issued(n)
    /\ started' = [started EXCEPT ![cause] = @ + n]

\* The message the catch block stores.
FetchErrorMessage(outcome) ==
    IF outcome.kind = "status" THEN "Failed to fetch documents" ELSE outcome.text

\* setDocuments merging the response into the held list instead of replacing it.
DocumentsAfterMerge(outcome, held) ==
    IF outcome.kind = "ok"
    THEN outcome.body \o SelectSeq(held, LAMBDA d : d.id \notin Ids(outcome.body))
    ELSE held

\* A catch block that also empties the list.
DocumentsAfterClearOnError(outcome, held) ==
    IF outcome.kind = "ok" THEN outcome.body ELSE <<>>

DocumentsAfter(outcome, held) ==
    IF outcome.kind = "ok" THEN outcome.body ELSE held

\* The success path without setError("").
ErrorAfterKeep(outcome, held) ==
    IF outcome.kind = "ok" THEN held ELSE FetchErrorMessage(outcome)

ErrorAfter(outcome, held) ==
    IF outcome.kind = "ok" THEN "" ELSE FetchErrorMessage(outcome)

\* A catch block that gives up polling: it stops the timer on a failure.
IntervalAfterStopOnError(outcome, active) ==
    IF outcome.kind = "ok" THEN active ELSE FALSE

\* fetchDocuments holds no reference to the interval: neither path touches it.
IntervalAfter(outcome, active) == active

\* State setters that still write after the component is gone.
StateUpdatesAlwaysApply == TRUE

\* setDocuments / setError / setLoading take effect on a mounted component;
\* React drops (without throwing) the updates of an unmounted one.
StateUpdatesApply == lifecycle = "mounted"

\* A sequence check: a response overtaken by that of a later request is dropped.
AcceptsOnlyNewest(overtaken) == ~overtaken

\* fetchDocuments carries no request number and no AbortController: the
\* response of every request is handled, in the order of arrival.
AcceptsResponse(overtaken) == TRUE

\* The response of the k-th outstanding request arrives.
FetchCompleteOf(k, outcome) ==
    /\ k \in 1 .. Len(pending)
    /\ pending' = AfterCompletion(pending, k)
    /\ lastFetch' = [kind |-> outcome.kind, body |-> outcome.body,
                     prevDocuments |-> documents, prevError |-> error,
                     applied |-> StateUpdatesApply, overtaken |-> pending[k]]
    /\ IF StateUpdatesApply /\ AcceptsResponse(pending[k])
       THEN /\ documents' = DocumentsAfter(outcome, documents)
            /\ error' = ErrorAfter(outcome, error)
            /\ loading' = FALSE
       ELSE UNCHANGED <<documents, error, loading>>
    /\ intervalActive' = IntervalAfter(outcome, intervalActive)
    /\ UNCHANGED <<selectedDocument, backend, lifecycle, refreshTrigger, started,
                   mountFetches, lastRender>>
    /\ UNCHANGED uploadVars

\* A response arrives for one outstanding request, whichever.
FetchComplete(outcome) ==
    \E k \in 1 .. Len(pending) : FetchCompleteOf(k, outcome)

(***************************************************************************)
(* The three effects.                                                      *)
(***************************************************************************)
\* useEffect(() => { fetchDocuments(); }, []) : calls made by the mount commit.
InitialFetchEffect == 1

\* useEffect(() => { if (refreshTrigger) fetchDocuments(); }, [refreshTrigger]):
\* calls made when the effect is considered, on mount or on a render that
\* passes `next` after `prev`.
TriggerEffect(isMount, prev, next) ==
    IF (isMount \/ prev # next) /\ Truthy(next) THEN 1 ELSE 0

\* The commit that mounts the component runs the three effects in order.
Mount ==
    /\ lifecycle = "rendered"
    /\ lifecycle' = "mounted"
    /\ loading' = TRUE
    /\ pending' = pending \o Issued(InitialFetchEffect
                                       + TriggerEffect(TRUE, refreshTrigger, refreshTrigger))
    /\ started' = [started EXCEPT
                     !.mount = @ + InitialFetchEffect,
                     !.trigger = @ + TriggerEffect(TRUE, refreshTrigger, refreshTrigger)]
    /\ mountFetches' = InitialFetchEffect
                         + TriggerEffect(TRUE, refreshTrigger, refreshTrigger)
    /\ intervalActive' = TRUE
    /\ UNCHANGED <<selectedDocument, backend, refreshTrigger, documents, error, lastFetch, lastRender>>
    /\ UNCHANGED uploadVars

\* The list's part of a parent render that passes refreshTrigger = v.
RenderDocumentList(v) ==
    IF lifecycle = "mounted"
    THEN /\ refreshTrigger' = v
         /\ CallFetchDocuments("trigger", TriggerEffect(FALSE, refreshTrigger, v))
         /\ lastRender' = [from |-> refreshTrigger, to |-> v,
                           fetches |-> TriggerEffect(FALSE, refreshTrigger, v),
                           seen |-> TRUE]
         /\ UNCHANGED <<selectedDocument, backend, lifecycle, documents, error, intervalActive, mountFetches,
                        lastFetch>>
    ELSE UNCHANGED listVars

\* A parent other than App re-renders the list with any value of the prop.
ParentRender(v) ==
    /\ lifecycle = "mounted"
    /\ TotalStarted + TriggerEffect(FALSE, refreshTrigger, v) <= MaxFetches
    /\ RenderDocumentList(v)
    /\ UNCHANGED uploadVars

\* setInterval(() => { fetchDocuments(); }, 5000)
Tick ==
    /\ intervalActive
    /\ TotalStarted < MaxFetches
    /\ CallFetchDocuments("timer", 1)
    /\ UNCHANGED <<selectedDocument, backend, lifecycle, refreshTrigger, documents, error, intervalActive,
                   mountFetches, lastFetch, lastRender>>
    /\ UNCHANGED uploadVars

\* A timer armed with setTimeout instead of setInterval: it fires once.
PollTickOnce ==
    /\ intervalActive
    /\ Len(pending) < MaxInFlight
    /\ loading' = TRUE
    /\ pending' = pending \o Issued(1)
    /\ started' = [started EXCEPT !.timer = IF @ < MaxFetches THEN @ + 1 ELSE @]
    /\ intervalActive' = FALSE
    /\ UNCHANGED <<selectedDocument, backend, lifecycle, refreshTrigger, documents, error,
                   mountFetches, lastFetch, lastRender>>
    /\ UNCHANGED uploadVars

\* The same setInterval callback as Tick, for behaviours without end: the timer
\* fires any number of times (the history counter stops counting at MaxFetches)
\* while fewer than MaxInFlight requests are outstanding.
PollTick ==
    /\ intervalActive
    /\ Len(pending) < MaxInFlight
    /\ loading' = TRUE
    /\ pending' = pending \o Issued(1)
    /\ started' = [started EXCEPT !.timer = IF @ < MaxFetches THEN @ + 1 ELSE @]
    /\ UNCHANGED <<selectedDocument, backend, lifecycle, refreshTrigger, documents, error,
                   intervalActive, mountFetches, lastFetch, lastRender>>
    /\ UNCHANGED uploadVars

(***************************************************************************)
(* The backend, as far as the client observes it: one document that is     *)
(* created and then processed (PENDING -> PROCESSING -> COMPLETED|FAILED). *)
(***************************************************************************)
StatusNext(status) ==
    CASE status = "PENDING" -> {"PROCESSING"}
      [] status = "PROCESSING" -> {"COMPLETED", "FAILED"}
      [] OTHER -> {}

PollBodies == {<<>>} \cup {<<Doc(1, st)>> : st \in {"PENDING", "PROCESSING", "COMPLETED", "FAILED"}}

\* The backend accepts a document, or moves it to its next status.
BackendStep ==
    /\ backend' \in (IF backend = <<>> THEN {<<Doc(1, "PENDING")>>}
                     ELSE {<<Doc(1, st)>> : st \in StatusNext(backend[1].status)})
    /\ UNCHANGED <<selectedDocument, lifecycle, refreshTrigger, documents, loading, error,
                   pending, intervalActive, started, mountFetches, lastFetch, lastRender>>
    /\ UNCHANGED uploadVars

\* GET /documents answers 2xx with what the backend holds.
PollAnswer ==
    \E k \in 1 .. Len(pending) :
        FetchCompleteOf(k, [kind |-> "ok", body |-> backend, text |-> ""])

\* GET /documents fails.
PollFailure ==
    \E outcome \in {o \in GetOutcomes : o.kind # "ok"} : FetchComplete(outcome)

\* The early return of the render: neither button exists while it shows.
ShowsLoadingOnly == loading /\ Len(documents) = 0

\* <button onClick={fetchDocuments} className="retry-button">
ClickRetry ==
    /\ lifecycle = "mounted"
    /\ ~ShowsLoadingOnly
    /\ error # ""
    /\ TotalStarted < MaxFetches
    /\ CallFetchDocuments("manual", 1)
    /\ UNCHANGED <<selectedDocument, backend, lifecycle, refreshTrigger, documents, error, intervalActive,
                   mountFetches, lastFetch, lastRender>>
    /\ UNCHANGED uploadVars

\* <button onClick={fetchDocuments} className="refresh-button">
ClickRefresh ==
    /\ lifecycle = "mounted"
    /\ ~ShowsLoadingOnly
    /\ error = ""
    /\ TotalStarted < MaxFetches
    /\ CallFetchDocuments("manual", 1)
    /\ UNCHANGED <<selectedDocument, backend, lifecycle, refreshTrigger, documents, error, intervalActive,
                   mountFetches, lastFetch, lastRender>>
    /\ UNCHANGED uploadVars

\* The render reaches the table and the modal: neither early return is taken.
ShowsList == lifecycle = "mounted" /\ ~ShowsLoadingOnly /\ error = ""

\* A row click that also marks the clicked document in the held list.
handleRowClickMarking(k) ==
    /\ ShowsList
    /\ k \in 1 .. Len(documents)
    /\ documents' = [documents EXCEPT ![k].status = "PROCESSING"]
    /\ selectedDocument' = documents'[k]
    /\ UNCHANGED <<backend, lifecycle, refreshTrigger, loading, error, pending,
                   intervalActive, started, mountFetches, lastFetch, lastRender>>
    /\ UNCHANGED uploadVars

\* handleRowClick: setSelectedDocument(document), for the row of documents[k].
\* (The optional onDocumentClick callback holds no state of the component.)
handleRowClick(k) ==
    /\ ShowsList
    /\ k \in 1 .. Len(documents)
    /\ selectedDocument' = documents[k]
    /\ UNCHANGED <<backend, lifecycle, refreshTrigger, documents, loading, error, pending,
                   intervalActive, started, mountFetches, lastFetch, lastRender>>
    /\ UNCHANGED uploadVars

\* closeDetail: setSelectedDocument(null), from the open modal.
closeDetail ==
    /\ ShowsList
    /\ selectedDocument # NoDocument
    /\ selectedDocument' = NoDocument
    /\ UNCHANGED <<backend, lifecycle, refreshTrigger, documents, loading, error, pending,
                   intervalActive, started, mountFetches, lastFetch, lastRender>>
    /\ UNCHANGED uploadVars

\* An effect without its cleanup: the interval outlives the component.
UnmountKeepInterval ==
    /\ lifecycle = "mounted"
    /\ lifecycle' = "unmounted"
    /\ UNCHANGED <<selectedDocument, backend, refreshTrigger, documents, loading, error, pending, intervalActive,
                   started, mountFetches, lastFetch, lastRender>>
    /\ UNCHANGED uploadVars

\* return () => clearInterval(interval)
Unmount ==
    /\ lifecycle = "mounted"
    /\ lifecycle' = "unmounted"
    /\ intervalActive' = FALSE
    /\ UNCHANGED <<selectedDocument, backend, refreshTrigger, documents, loading, error, pending, started,
                   mountFetches, lastFetch, lastRender>>
    /\ UNCHANGED uploadVars

(***************************************************************************)
(* App: the handlers it passes to FileUpload, and its re-render.           *)
(***************************************************************************)
\* handleUploadSuccess: setDocuments([document, ...documents]); setError("").
\* `documents` is the value of the render whose handler the call captured.
handleUploadSuccess(doc, captured) ==
    /\ appDocuments' = <<doc>> \o captured
    /\ appError' = ""

\* handleUploadError: setError(errorMsg).
handleUploadError(msg) ==
    /\ appError' = msg
    /\ UNCHANGED appDocuments

\* After a state change App renders again and with it <DocumentList />.
AppRender ==
    IF uploadProps.onUploadSuccess = "app" /\ uploadProps.onUploadError = "app"
    THEN RenderDocumentList(AppRefreshTrigger)
    ELSE UNCHANGED listVars

(***************************************************************************)
(* uploadFile.                                                             *)
(***************************************************************************)
\* if (onUploadError) onUploadError(msg), for call record c.
ReportError(c, msg) ==
    IF uploadProps.onUploadError = "none" THEN c
    ELSE [c EXCEPT !.reports = Append(@, Report("error", msg, 0))]

OnUploadErrorState(msg) ==
    IF uploadProps.onUploadError = "app" THEN handleUploadError(msg)
    ELSE UNCHANGED <<appDocuments, appError>>

NewCall(file) == [file |-> file, pc |-> "start", requests |-> 0, reports |-> <<>>,
                  captured |-> appDocuments]

\* uploadFile up to its first await: validation, then the busy state and the
\* POST request.
uploadFile(file) ==
    /\ Len(calls) < MaxSubmits
    /\ lifecycle # "rendered"
    /\ IF validateFile(file) # Null
       THEN /\ calls' = Append(calls,
                   [ReportError(NewCall(file), validateFile(file)) EXCEPT !.pc = "done"])
            /\ OnUploadErrorState(validateFile(file))
            /\ UNCHANGED <<isUploading, uploadProgress>>
       ELSE /\ isUploading' = TRUE
            /\ uploadProgress' = UploadingLabel(file)
            /\ calls' = Append(calls,
                   [NewCall(file) EXCEPT !.pc = "awaiting", !.requests = @ + 1])
            /\ UNCHANGED <<appDocuments, appError>>
    /\ UNCHANGED uploadProps
    /\ IF validateFile(file) # Null THEN AppRender ELSE UNCHANGED listVars

\* handleDrop: uploadFile(files[0]).
handleDrop(file) == uploadFile(file)

\* handleFileSelect: uploadFile(files[0]).
handleFileSelect(file) == uploadFile(file)

\* A catch block that re-issues the POST after reporting the failure.
CatchAndRetry(i, msg) ==
    /\ uploadProgress' = EmptyLabel
    /\ isUploading' = FALSE
    /\ calls' = [calls EXCEPT ![i] = [ReportError(@, msg) EXCEPT !.requests = @ + 1]]
    /\ OnUploadErrorState(msg)
    /\ AppRender

\* The catch block of call i with the caught message.
Catch(i, msg) ==
    /\ uploadProgress' = EmptyLabel
    /\ isUploading' = FALSE
    /\ calls' = [calls EXCEPT ![i] = [ReportError(@, msg) EXCEPT !.pc = "done"]]
    /\ OnUploadErrorState(msg)
    /\ AppRender

\* The catch block entered after onUploadSuccess was invoked and threw.
CatchAfterSuccess(i, doc, msg) ==
    /\ uploadProgress' = EmptyLabel
    /\ isUploading' = FALSE
    /\ calls' = [calls EXCEPT ![i] =
                   [ReportError([@ EXCEPT !.reports = Append(@, Report("success", "", doc))],
                                msg)
                    EXCEPT !.pc = "done"]]
    /\ OnUploadErrorState(msg)
    /\ AppRender

\* The 2xx path: the label, the success callback, the reset timer.
Succeed(i, doc) ==
    CASE uploadProps.onUploadSuccess = "none" ->
            /\ uploadProgress' = SuccessLabel
            /\ calls' = [calls EXCEPT ![i].pc = "timer"]
            /\ UNCHANGED <<isUploading, appDocuments, appError>>
            /\ UNCHANGED listVars
      [] uploadProps.onUploadSuccess = "app" ->
            /\ uploadProgress' = SuccessLabel
            /\ calls' = [calls EXCEPT ![i].pc = "timer",
                                      ![i].reports = Append(@, Report("success", "", doc))]
            /\ handleUploadSuccess(doc, calls[i].captured)
            /\ UNCHANGED isUploading
            /\ AppRender
      [] uploadProps.onUploadSuccess = "throws" ->
            \E thrown \in Thrown : CatchAfterSuccess(i, doc, errorMessage(thrown))

\* The POST of call i is answered (or fails): the rest of the try block.
UploadResponse(i, outcome) ==
    /\ i \in 1 .. Len(calls)
    /\ calls[i].pc = "awaiting"
    /\ CASE outcome.kind = "network" -> Catch(i, outcome.text)
         [] outcome.kind = "status" -> Catch(i, UploadFailedMsg(outcome.text))
         [] outcome.kind = "badjson" -> Catch(i, outcome.text)
         [] outcome.kind = "ok" -> Succeed(i, i)
    /\ UNCHANGED uploadProps

\* setTimeout(() => { setUploadProgress(""); setIsUploading(false); }, 2000)
ResetTimer(i) ==
    /\ i \in 1 .. Len(calls)
    /\ calls[i].pc = "timer"
    /\ uploadProgress' = EmptyLabel
    /\ isUploading' = FALSE
    /\ calls' = [calls EXCEPT ![i].pc = "done"]
    /\ UNCHANGED <<uploadProps, appDocuments, appError>>
    /\ UNCHANGED listVars

(***************************************************************************)
(* Initial states and specifications.                                      *)
(***************************************************************************)
AppProps == [onUploadSuccess |-> "app", onUploadError |-> "app"]

AnyProps == [onUploadSuccess : {"app", "throws", "none"}, onUploadError : {"app", "none"}]

InitUploadState ==
    /\ calls = <<>>
    /\ isUploading = FALSE
    /\ uploadProgress = EmptyLabel
    /\ appDocuments = <<>>
    /\ appError = ""

InitListState ==
    /\ documents = <<>>
    /\ loading = TRUE
    /\ error = ""
    /\ pending = <<>>
    /\ intervalActive = FALSE
    /\ started = [mount |-> 0, trigger |-> 0, timer |-> 0, manual |-> 0]
    /\ mountFetches = 0
    /\ lastFetch = NoFetch
    /\ lastRender = NoRender
    /\ selectedDocument = NoDocument
    /\ backend = <<>>

\* App has rendered <FileUpload .../> and <DocumentList />; no effect has run.
Init ==
    /\ uploadProps = AppProps
    /\ InitUploadState
    /\ lifecycle = "rendered"
    /\ refreshTrigger = AppRefreshTrigger
    /\ InitListState

\* FileUpload rendered by any parent; no DocumentList.
InitUpload ==
    /\ uploadProps \in AnyProps
    /\ InitUploadState
    /\ lifecycle = "absent"
    /\ refreshTrigger = Undefined
    /\ InitListState

\* DocumentList rendered by any parent with any refreshTrigger; no upload.
InitList ==
    /\ uploadProps = AppProps
    /\ InitUploadState
    /\ lifecycle = "rendered"
    /\ refreshTrigger \in TriggerValues
    /\ InitListState

\* FileUpload alone: every file, every answer.
UploadNext ==
    \/ \E file \in Files : handleDrop(file)
    \/ \E file \in Files : handleFileSelect(file)
    \/ \E i \in 1 .. MaxSubmits, outcome \in PostOutcomes : UploadResponse(i, outcome)
    \/ \E i \in 1 .. MaxSubmits : ResetTimer(i)

\* DocumentList alone: every answer, every prop value, teardown.
ListNext ==
    \/ Mount
    \/ Tick
    \/ ClickRetry
    \/ ClickRefresh
    \/ \E outcome \in GetOutcomes : FetchComplete(outcome)
    \/ \E v \in TriggerValues : ParentRender(v)
    \/ Unmount

\* DocumentList as App renders it (no refreshTrigger), with the user's clicks
\* on rows and buttons, and teardown.
SyncNext ==
    \/ Mount
    \/ Tick
    \/ ClickRetry
    \/ ClickRefresh
    \/ \E outcome \in GetOutcomes : FetchComplete(outcome)
    \/ \E k \in 1 .. MaxRows : handleRowClick(k)
    \/ closeDetail
    \/ Unmount

\* The program as App.tsx composes it, driven through the end-to-end scenarios.
Next ==
    \/ \E file \in ScenarioFiles : handleDrop(file)
    \/ \E file \in ScenarioFiles : handleFileSelect(file)
    \/ \E i \in 1 .. MaxSubmits, outcome \in ScenarioPostOutcomes : UploadResponse(i, outcome)
    \/ \E i \in 1 .. MaxSubmits : ResetTimer(i)
    \/ Mount
    \/ Tick
    \/ ClickRetry
    \/ ClickRefresh
    \/ \E outcome \in ScenarioGetOutcomes : FetchComplete(outcome)
    \/ \E k \in 1 .. MaxRows : handleRowClick(k)
    \/ closeDetail

Spec == Init /\ [][Next]_vars

SpecUpload == InitUpload /\ [][UploadNext]_vars

SpecList == InitList /\ [][ListNext]_vars

SpecSync == Init /\ [][SyncNext]_vars

\* DocumentList stays mounted and nobody clicks: the mount, the timer, the
\* backend and the answers.
PollNext ==
    \/ Mount
    \/ PollTick
    \/ BackendStep
    \/ PollAnswer
    \/ PollFailure

\* The component mounts, the armed timer keeps firing, and of the requests
\* outstanding again and again one is eventually answered with success.
SpecPoll ==
    /\ Init
    /\ [][PollNext]_vars
    /\ WF_vars(Mount)
    /\ WF_vars(PollTick)
    /\ SF_vars(PollAnswer)

(***************************************************************************)
(* Vocabulary of the properties.                                           *)
(***************************************************************************)
\* The format a MIME type names ("image/jpg" is the common alias of JPEG).
FormatOf(type) ==
    CASE type \in {"image/jpeg", "image/jpg"} -> "JPEG"
      [] type = "image/png" -> "PNG"
      [] type = "application/pdf" -> "PDF"
      [] OTHER -> "OTHER"

IsJpegPngPdf(file) == FormatOf(file.type) \in {"JPEG", "PNG", "PDF"}

TwentyMiB == 20 * 1024 * 1024

CallIds == 1 .. Len(calls)

Finished(i) == calls[i].pc \in {"timer", "done"}

HasErrorCallback == uploadProps.onUploadError # "none"

HasBothCallbacks == uploadProps.onUploadError # "none" /\ uploadProps.onUploadSuccess # "none"

\* Call i ended by reporting exactly the error msg (when there is a callback
\* to report it to) and never touched the network.
RejectedLocally(i, msg) ==
    /\ calls[i].pc = "done"
    /\ calls[i].requests = 0
    /\ HasErrorCallback => calls[i].reports = <<Report("error", msg, 0)>>

SuccessReports(i) ==
    Len(SelectSeq(calls[i].reports, LAMBDA r : r.kind = "success"))

ErrorReports(i) ==
    Len(SelectSeq(calls[i].reports, LAMBDA r : r.kind = "error"))

FetchFailed == lastFetch.kind \in {"status", "network", "badjson"}

(***************************************************************************)
(* Properties of the Upload Submitter (under SpecUpload).                  *)
(***************************************************************************)
\* C1: every file whose MIME type is outside {JPEG, PNG, PDF}, whatever its
\* size (also over the limit), is rejected with the unsupported-type error and
\* no network request is issued for it.
C1_UnsupportedTypeRejected ==
    \A i \in CallIds :
        ~IsJpegPngPdf(calls[i].file) => RejectedLocally(i, UnsupportedTypeMsg)

\* An unsupported file that is also over the size limit was submitted and was
\* reported as unsupported.
C1_Witness ==
    \E i \in CallIds :
        /\ ~IsJpegPngPdf(calls[i].file)
        /\ calls[i].file.size > TwentyMiB
        /\ calls[i].reports = <<Report("error", UnsupportedTypeMsg, 0)>>
        /\ calls[i].requests = 0

\* C2 as stated: every file of a supported type whose size is greater than or
\* equal to 20 MiB (the boundary included) fails with the too-large error and
\* issues no network request.
C2_Original ==
    \A i \in CallIds :
        (IsJpegPngPdf(calls[i].file) /\ calls[i].file.size >= TwentyMiB)
            => RejectedLocally(i, FileTooLargeMsg)

\* C2 as amended: every file of a supported type whose size is strictly greater
\* than 20 MiB fails with the too-large error and issues no network request; a
\* supported file of exactly 20 MiB passes validation and is uploaded.
C2_TooLargeRejected ==
    \A i \in CallIds :
        /\ (IsJpegPngPdf(calls[i].file) /\ calls[i].file.size > TwentyMiB)
              => RejectedLocally(i, FileTooLargeMsg)
        /\ (IsJpegPngPdf(calls[i].file) /\ calls[i].file.size = TwentyMiB)
              => calls[i].requests = 1

\* A supported file over the limit was rejected and a supported file of exactly
\* 20 MiB was sent.
C2_Witness ==
    /\ \E i \in CallIds :
          /\ IsJpegPngPdf(calls[i].file)
          /\ calls[i].file.size > TwentyMiB
          /\ calls[i].reports = <<Report("error", FileTooLargeMsg, 0)>>
    /\ \E i \in CallIds :
          /\ IsJpegPngPdf(calls[i].file)
          /\ calls[i].file.size = TwentyMiB
          /\ calls[i].requests = 1

\* C3: every uploadFile call reports exactly one outcome: once the call has run
\* to its end exactly one of onUploadSuccess / onUploadError has been invoked,
\* once, and at no time has a call reported more than once (callbacks given).
C3_ExactlyOneOutcome ==
    HasBothCallbacks =>
        \A i \in CallIds :
            /\ SuccessReports(i) + ErrorReports(i) <= 1
            /\ Finished(i) => SuccessReports(i) + ErrorReports(i) = 1

\* C4: a file that passes validation (supported type, at most 20 MiB) causes
\* exactly one POST, at every moment of its call and after it failed: no retry.
C4_ExactlyOneRequest ==
    \A i \in CallIds :
        (IsJpegPngPdf(calls[i].file) /\ calls[i].file.size <= TwentyMiB)
            => calls[i].requests = 1

\* A validated upload failed, reported its error, and still counts one POST.
C4_Witness ==
    \E i \in CallIds :
        /\ IsJpegPngPdf(calls[i].file)
        /\ calls[i].file.size <= TwentyMiB
        /\ calls[i].pc = "done"
        /\ ErrorReports(i) = 1
        /\ calls[i].requests = 1

(***************************************************************************)
(* Properties of the Document Synchronizer (under SpecList).               *)
(***************************************************************************)
\* C5: when a refresh completes successfully the held collection is exactly the
\* response: a document held before and absent from the response is gone.
C5_WholesaleReplacement ==
    (lastFetch.kind = "ok" /\ lastFetch.applied) =>
        /\ documents = lastFetch.body
        /\ \A id \in Ids(lastFetch.prevDocuments) \ Ids(lastFetch.body) :
              id \notin Ids(documents)

\* A successful refresh whose response omitted a document that was held.
C5_Witness ==
    /\ lastFetch.kind = "ok"
    /\ lastFetch.applied
    /\ Ids(lastFetch.prevDocuments) \ Ids(lastFetch.body) # {}

\* C6: when a refresh fails (network error, non-2xx answer, unreadable body)
\* the error state is non-empty and the collection is what it was before.
C6_FailureKeepsCollection ==
    (FetchFailed /\ lastFetch.applied) =>
        /\ error # ""
        /\ documents = lastFetch.prevDocuments

\* A refresh failed with a non-2xx answer while documents were held.
C6_Witness ==
    /\ lastFetch.kind = "status"
    /\ lastFetch.applied
    /\ lastFetch.prevDocuments # <<>>
    /\ error = "Failed to fetch documents"

\* C7: a refresh that succeeds while the error state is set (by an earlier
\* failed refresh) clears the error and replaces the collection.
C7_SuccessClearsError ==
    (lastFetch.kind = "ok" /\ lastFetch.applied /\ lastFetch.prevError # "") =>
        /\ error = ""
        /\ documents = lastFetch.body

\* A manual retry was made and a refresh then succeeded over a set error.
C7_Witness ==
    /\ lastFetch.kind = "ok"
    /\ lastFetch.applied
    /\ lastFetch.prevError # ""
    /\ started.manual > 0
    /\ error = ""

\* C8 (under Spec): every successful upload signals the synchronizer: for each
\* onUploadSuccess reported there is a refresh started by the signal.
C8_UploadSuccessTriggersRefresh ==
    Cardinality({i \in CallIds : SuccessReports(i) > 0}) <= started.trigger

\* C9: activation causes exactly one refresh, whatever the initial value of
\* refreshTrigger.
C9_MountFetchesOnce ==
    lifecycle \in {"mounted", "unmounted"} => mountFetches = 1

\* C10: after activation a render that changes refreshTrigger to a distinct
\* value (0 and undefined included) causes exactly one refresh, and a render
\* with the unchanged value causes none.
C10_OneRefreshPerDistinctValue ==
    lastRender.seen =>
        lastRender.fetches = (IF lastRender.from # lastRender.to THEN 1 ELSE 0)

\* C11: while the synchronizer is active the polling timer stays armed and a
\* tick can start a refresh, whatever earlier refreshes did and whether or not
\* the error state is set: no fetch failure stops the timer.
C11_TimerSurvivesFailures ==
    lifecycle = "mounted" =>
        /\ intervalActive
        /\ TotalStarted < MaxFetches => ENABLED Tick

\* A refresh has failed, the error is showing, and the timer can still fire.
C11_Witness ==
    /\ lifecycle = "mounted"
    /\ FetchFailed
    /\ lastFetch.applied
    /\ error # ""
    /\ intervalActive
    /\ ENABLED Tick

\* C12: once the synchronizer is torn down no timer tick starts a refresh.
C12_NoTickAfterTeardown ==
    [][lifecycle = "unmounted" =>
          /\ ~intervalActive
          /\ (started.timer)' = started.timer
          /\ inFlight' <= inFlight]_vars

\* Torn down after the timer had fired, with refreshes left in the budget.
C12_Witness ==
    /\ lifecycle = "unmounted"
    /\ started.timer > 0
    /\ TotalStarted < MaxFetches

C14_DetailFollowsRefresh ==
    (ShowsList /\ selectedDocument # NoDocument) =>
        \A k \in 1 .. Len(documents) :
            documents[k].id = selectedDocument.id => documents[k] = selectedDocument

\* C16: overlapping refreshes complete independently, and once all of them
\* have completed, the last to arrive having succeeded, the collection is the
\* response that arrived last, also when its request was issued before that of
\* a response that arrived earlier.
C16_LastArrivalWins ==
    (lastFetch.kind = "ok" /\ lastFetch.applied /\ pending = <<>>) =>
        documents = lastFetch.body

\* Two refreshes overlapped and the one issued first answered last, with a
\* collection other than the one the later request had brought.
C16_Witness ==
    /\ lastFetch.kind = "ok"
    /\ lastFetch.applied
    /\ lastFetch.overtaken
    /\ pending = <<>>
    /\ lastFetch.prevError = ""
    /\ lastFetch.prevDocuments # <<>>
    /\ lastFetch.body # lastFetch.prevDocuments
    /\ documents = lastFetch.body

(***************************************************************************)
(* Properties of polling (under SpecPoll).                                 *)
(***************************************************************************)
\* C15 as stated: every status the backend gives a document eventually appears
\* in the held collection without any user action.
C15_Original ==
    \A b \in PollBodies : (backend = b) ~> (documents = b)

\* C15 as amended: every status the backend gives a document eventually appears
\* in the held collection without any user action, unless the backend has
\* changed the document again before a refresh read it; the status the backend
\* settles on always appears.
C15_StatusEventuallyVisible ==
    \A b \in PollBodies : (backend = b) ~> (documents = b \/ backend # b)

\* A completed document is shown, brought by a timer-driven refresh and no click.
C15_Witness ==
    /\ backend = <<Doc(1, "COMPLETED")>>
    /\ documents = backend
    /\ lastFetch.kind = "ok"
    /\ lastFetch.prevDocuments = <<Doc(1, "PROCESSING")>>
    /\ started.timer > 0
    /\ started.manual = 0

(***************************************************************************)
(* Properties of the busy and loading flags, and of the collection.        *)
(***************************************************************************)
AwaitingCalls == {i \in CallIds : calls[i].pc = "awaiting"}

\* C17 (under SpecUpload): at most one POST is outstanding at any time, for
\* every sequence of drop and file-select events, also while the busy flag is set.
C17_AtMostOneUploadInFlight ==
    Cardinality(AwaitingCalls) <= 1

\* C18 (under SpecUpload): the busy flag is true in every state in which an
\* upload request is in flight, also for a submit started during the reset
\* delay of an earlier success or while another upload is in flight.
C18_BusyWhileInFlight ==
    AwaitingCalls # {} => isUploading

\* C19 (under SpecSync): the loading flag of the active synchronizer is true
\* exactly while at least one refresh is in flight.
C19_LoadingIffInFlight ==
    lifecycle = "mounted" => (loading <=> inFlight > 0)

\* C20 (under Spec): the held collection starts empty and changes only by
\* becoming the body of a successful GET /documents response that has just
\* arrived: no upload outcome, failed fetch, row focus or click alters it.
C20_CollectionOnlyFromResponses ==
    /\ documents = <<>>
    /\ [][documents' # documents =>
             /\ lastFetch'.kind = "ok"
             /\ documents' = lastFetch'.body
             /\ Len(pending') = Len(pending) - 1]_vars

\* After an upload succeeded, a row was focused and a fetch then failed, the
\* collection is still the one the last successful response brought.
C20_Witness ==
    /\ \E i \in CallIds : SuccessReports(i) = 1
    /\ selectedDocument # NoDocument
    /\ FetchFailed
    /\ lastFetch.applied
    /\ documents # <<>>
    /\ documents = lastFetch.prevDocuments

====
